---- MODULE Spec2Model ----
(***************************************************************************)
(* Channel-affinity protocol of grpc-gcp (src/grpc-gcp/src/index.ts):      *)
(* gcpCallInvocationTransformer, preProcess, the postProcessInterceptor    *)
(* listener, postProcess and getAffinityKeyFromMessage, run by many        *)
(* interleaved calls against one channel pool (GcpChannelFactory).         *)
(***************************************************************************)
EXTENDS Integers, Sequences, FiniteSets, TLC

\* ------------------------------------------------------------------ bounds
MaxCalls == 2
NumChannels == 2

Calls == 1..MaxCalls
Channels == 1..NumChannels

\* ------------------------------------------------------- JavaScript values
\* A string is the sequence of its characters; an object is the table of its
\* function-valued properties (the accessors of a protobuf message).
Undefined == [t |-> "undefined"]
Str(s) == [t |-> "string", s |-> s]
Obj(g) == [t |-> "object", g |-> g]

EmptyString == Str(<<>>)

\* JavaScript truthiness of a value: undefined and '' are falsy.
Truthy(v) ==
  CASE v.t = "undefined" -> FALSE
    [] v.t = "string" -> v.s # <<>>
    [] OTHER -> TRUE

\* typeof v[name] === 'function'
HasFunction(v, name) == v.t = "object" /\ name \in DOMAIN v.g

\* String.prototype.split('.')
RECURSIVE SplitAcc(_, _)
SplitAcc(s, cur) ==
  IF s = <<>> THEN <<cur>>
  ELSE IF Head(s) = "." THEN <<cur>> \o SplitAcc(Tail(s), <<>>)
  ELSE SplitAcc(Tail(s), Append(cur, Head(s)))

Split(s) == SplitAcc(s, <<>>)

\* String.prototype.toUpperCase on one character
ToUpperCase(ch) ==
  CASE ch = "a" -> "A"
    [] ch = "b" -> "B"
    [] OTHER -> ch

\* 'get' + name.charAt(0).toUpperCase() + name.substr(1)
GetterName(name) ==
  <<"g", "e", "t">> \o
    (IF name = <<>> THEN <<>> ELSE <<ToUpperCase(Head(name))>> \o Tail(name))

\* The for-loop of getAffinityKeyFromMessage; i counts from 1 here, so the
\* code's i is i - 1.
RECURSIVE WalkNames(_, _, _)
WalkNames(currMessage, names, i) ==
  IF i > Len(names) THEN [i |-> i, currMessage |-> currMessage]
  ELSE IF ~Truthy(currMessage) \/ ~HasFunction(currMessage, GetterName(names[i]))
       THEN [i |-> i, currMessage |-> currMessage]
       ELSE WalkNames(currMessage.g[GetterName(names[i])], names, i + 1)

\* getAffinityKeyFromMessage(message, affinityKeyName), parameters in the
\* order of the declaration. thrown: affinityKeyName is truthy but has no
\* split method (TypeError).
getAffinityKeyFromMessage(message, affinityKeyName) ==
  IF Truthy(affinityKeyName)
  THEN IF affinityKeyName.t # "string"
       THEN [thrown |-> TRUE, value |-> Undefined]
       ELSE LET names == Split(affinityKeyName.s)
                w == WalkNames(message, names, 1)
            IN IF (w.i - 1) # 0 /\ (w.i - 1) = Len(names)
               THEN [thrown |-> FALSE, value |-> w.currMessage]
               ELSE [thrown |-> FALSE, value |-> EmptyString]
  ELSE [thrown |-> FALSE, value |-> EmptyString]

\* ----------------------------------------------------------------- inputs
\* Protobuf messages, as objects with accessors.
MsgA == Obj([n \in {GetterName(<<"a">>)} |-> Str(<<"x">>)])
MsgAB ==
  Obj([n \in {GetterName(<<"a">>)} |->
        Obj([m \in {GetterName(<<"b">>)} |-> Str(<<"y">>)])])
MsgNoAccessor == Obj([n \in {} |-> Undefined])

Messages == {MsgA, MsgAB, MsgNoAccessor}

\* What onReceiveMessage may be handed: a message, or a falsy value such as
\* the '' of a deserializer for an empty payload (message: any).
Responses == {MsgA, MsgAB, EmptyString}

\* callProperties.argument is optional.
Arguments == {Undefined} \cup Messages

Paths == {"/NoPolicy", "/None", "/Bound", "/Bind", "/Unbind"}

\* callProperties.channel: the GcpChannelFactory, another grpc channel, or
\* nothing.
Target(kind, ref) == [kind |-> kind, ref |-> ref]
ChannelTargets == {Target("pool", 0), Target("foreign", 0), Target("absent", 0)}

\* callOptions.interceptors: absent, or the interceptors the caller set.
InterceptorLists ==
  {[present |-> FALSE, list |-> <<>>], [present |-> TRUE, list |-> <<"i">>]}

StatusCodes == {"OK", "CANCELLED"}

TheMetadata == "metadata"

\* --------------------------------------------- the channel pool (external)
\* AffinityConfig.Command; NONE is the falsy value.
NONE == "NONE"
BOUND == "BOUND"
BIND == "BIND"
UNBIND == "UNBIND"

NoConfig == [command |-> NONE, affinityKey |-> Undefined, present |-> FALSE]

Config(command, affinityKey) ==
  [command |-> command, affinityKey |-> affinityKey, present |-> TRUE]

\* GcpChannelFactory.getAffinityConfig(path)
getAffinityConfig(path) ==
  CASE path = "/None" -> Config(NONE, EmptyString)
    [] path = "/Bound" -> Config(BOUND, Str(<<"a">>))
    [] path = "/Bind" -> Config(BIND, Str(<<"a", ".", "b">>))
    [] path = "/Unbind" -> Config(UNBIND, Str(<<"a">>))
    [] OTHER -> NoConfig

\* affinityConfig && affinityConfig.command
HasCommand(affinityConfig) ==
  affinityConfig.present /\ affinityConfig.command # NONE

VARIABLES
  counter,   \* ChannelRef.activeStreamsCount of each pooled channel
  binding,   \* the pool's binding table: affinity key -> channel
  calls,     \* per call: what the closures of its interceptor hold
  ev         \* the handler that ran last: its input, its output, the pool
             \* operations it invoked

vars == <<counter, binding, calls, ev>>

\* One pool operation, as invoked by a handler.
Op(op, key, ch) == [op |-> op, key |-> key, ch |-> ch]

\* GcpChannelFactory.getChannelRef(boundKey): the channel bound to boundKey if
\* there is one, else any channel the pool's own selection may pick.
getChannelRef(boundKey) ==
  IF boundKey # Undefined /\ boundKey \in DOMAIN binding
  THEN {binding[boundKey]}
  ELSE Channels

\* GcpChannelFactory.bind(channelRef, affinityKey)
bind(table, channelRef, affinityKey) ==
  [k \in DOMAIN table \cup {affinityKey} |->
     IF k = affinityKey THEN channelRef ELSE table[k]]

\* GcpChannelFactory.unbind(boundKey)
unbind(table, boundKey) ==
  [k \in DOMAIN table \ {boundKey} |-> table[k]]

\* ChannelRef.activeStreamsCountIncr / activeStreamsCountDecr
activeStreamsCountIncr(count, channelRef) ==
  [count EXCEPT ![channelRef] = @ + 1]

activeStreamsCountDecr(count, channelRef) ==
  [count EXCEPT ![channelRef] = @ - 1]

\* ------------------------------------------------------------- preProcess
\* preProcessBoundKey without the test of the command at lines 206-211.
preProcessBoundKey_AnyCommand(path, argument) ==
  LET affinityConfig == getAffinityConfig(path)
  IN IF Truthy(argument) /\ affinityConfig.present
     THEN LET r == getAffinityKeyFromMessage(affinityConfig.affinityKey, argument)
          IN [thrown |-> r.thrown, boundKey |-> r.value,
              ops |-> <<Op("getAffinityKeyFromMessage", affinityConfig.affinityKey, 0)>>]
     ELSE [thrown |-> FALSE, boundKey |-> Undefined, ops |-> <<>>]

\* preProcessBoundKey without the test of the argument at line 206.
preProcessBoundKey_NoArgumentTest(path, argument) ==
  LET affinityConfig == getAffinityConfig(path)
      command == affinityConfig.command
  IN IF HasCommand(affinityConfig) /\ (command = BOUND \/ command = UNBIND)
     THEN LET r == getAffinityKeyFromMessage(affinityConfig.affinityKey, argument)
          IN [thrown |-> r.thrown, boundKey |-> r.value,
              ops |-> <<Op("getAffinityKeyFromMessage", affinityConfig.affinityKey, 0)>>]
     ELSE [thrown |-> FALSE, boundKey |-> Undefined, ops |-> <<>>]

\* Lines 204-217: the bound key of a call. The arguments of
\* getAffinityKeyFromMessage are those of the call at lines 212-215.
preProcessBoundKey(path, argument) ==
  LET affinityConfig == getAffinityConfig(path)
      command == affinityConfig.command
  IN IF Truthy(argument) /\ HasCommand(affinityConfig)
        /\ (command = BOUND \/ command = UNBIND)
     THEN LET r == getAffinityKeyFromMessage(affinityConfig.affinityKey, argument)
          IN [thrown |-> r.thrown, boundKey |-> r.value,
              ops |-> <<Op("getAffinityKeyFromMessage", affinityConfig.affinityKey, 0)>>]
     ELSE [thrown |-> FALSE, boundKey |-> Undefined, ops |-> <<>>]

\* preProcess(channelFactory, path, argument): its possible outcomes. An
\* exception of the key computation leaves before the channel is asked for.
preProcess(path, argument) ==
  LET k == preProcessBoundKey(path, argument)
  IN IF k.thrown
     THEN {[thrown |-> TRUE, boundKey |-> Undefined, channelRef |-> 0,
            count |-> counter, ops |-> k.ops]}
     ELSE {[thrown |-> FALSE, boundKey |-> k.boundKey, channelRef |-> ch,
            count |-> activeStreamsCountIncr(counter, ch),
            ops |-> k.ops \o <<Op("getChannelRef", k.boundKey, ch),
                               Op("activeStreamsCountIncr", Undefined, ch)>>] :
             ch \in getChannelRef(k.boundKey)}

\* ------------------------------------------------------------ postProcess
\* postProcess with one of three slips: the decrement done before the return
\* of line 242 as well, the decrement of line 256 done twice, or the channel
\* looked up again from the bound key instead of the channelRef handed in.
postProcessWith(decrOnReturn, decrTwice, reselect, channelFactory, channelRef, path, boundKey, responseMsg) ==
  LET ref == IF reselect THEN CHOOSE ch \in getChannelRef(boundKey) : TRUE
             ELSE channelRef
      decr == Op("activeStreamsCountDecr", Undefined, ref)
      once == activeStreamsCountDecr(counter, ref)
      count == IF decrTwice THEN activeStreamsCountDecr(once, ref) ELSE once
      decrs == IF decrTwice THEN <<decr, decr>> ELSE <<decr>>
  IN IF channelFactory # "pool" \/ ~Truthy(responseMsg)
     THEN IF decrOnReturn
          THEN [thrown |-> FALSE, table |-> binding, count |-> count,
                ops |-> decrs]
          ELSE [thrown |-> FALSE, table |-> binding, count |-> counter,
                ops |-> <<>>]
     ELSE LET affinityConfig == getAffinityConfig(path)
              command == affinityConfig.command
          IN IF HasCommand(affinityConfig) /\ command = BIND
             THEN LET r == getAffinityKeyFromMessage(affinityConfig.affinityKey,
                                                     responseMsg)
                      res == Op("getAffinityKeyFromMessage",
                                affinityConfig.affinityKey, 0)
                  IN IF r.thrown
                     THEN [thrown |-> TRUE, table |-> binding,
                           count |-> counter, ops |-> <<res>>]
                     ELSE [thrown |-> FALSE,
                           table |-> bind(binding, ref, r.value),
                           count |-> count,
                           ops |-> <<res, Op("bind", r.value, ref)>> \o decrs]
             ELSE IF HasCommand(affinityConfig) /\ command = UNBIND
             THEN [thrown |-> FALSE, table |-> unbind(binding, boundKey),
                   count |-> count,
                   ops |-> <<Op("unbind", boundKey, 0)>> \o decrs]
             ELSE [thrown |-> FALSE, table |-> binding, count |-> count,
                   ops |-> decrs]

postProcess_DecrementsWithoutMessage(channelFactory, channelRef, path, boundKey, responseMsg) ==
  postProcessWith(TRUE, FALSE, FALSE,
                  channelFactory, channelRef, path, boundKey, responseMsg)

postProcess_DecrementsTwice(channelFactory, channelRef, path, boundKey, responseMsg) ==
  postProcessWith(FALSE, TRUE, FALSE,
                  channelFactory, channelRef, path, boundKey, responseMsg)

postProcess_ReselectsChannel(channelFactory, channelRef, path, boundKey, responseMsg) ==
  postProcessWith(FALSE, FALSE, TRUE,
                  channelFactory, channelRef, path, boundKey, responseMsg)

\* postProcess(channelFactory, channelRef, path, boundKey, responseMsg)
postProcess(channelFactory, channelRef, path, boundKey, responseMsg) ==
  IF channelFactory # "pool" \/ ~Truthy(responseMsg)
  THEN [thrown |-> FALSE, table |-> binding, count |-> counter, ops |-> <<>>]
  ELSE LET affinityConfig == getAffinityConfig(path)
           command == affinityConfig.command
           decr == Op("activeStreamsCountDecr", Undefined, channelRef)
       IN IF HasCommand(affinityConfig) /\ command = BIND
          THEN LET r == getAffinityKeyFromMessage(affinityConfig.affinityKey,
                                                  responseMsg)
                   res == Op("getAffinityKeyFromMessage", affinityConfig.affinityKey, 0)
               IN IF r.thrown
                  THEN [thrown |-> TRUE, table |-> binding, count |-> counter,
                        ops |-> <<res>>]
                  ELSE [thrown |-> FALSE,
                        table |-> bind(binding, channelRef, r.value),
                        count |-> activeStreamsCountDecr(counter, channelRef),
                        ops |-> <<res, Op("bind", r.value, channelRef), decr>>]
          ELSE IF HasCommand(affinityConfig) /\ command = UNBIND
          THEN [thrown |-> FALSE,
                table |-> unbind(binding, boundKey),
                count |-> activeStreamsCountDecr(counter, channelRef),
                ops |-> <<Op("unbind", boundKey, 0), decr>>]
          ELSE [thrown |-> FALSE, table |-> binding,
                count |-> activeStreamsCountDecr(counter, channelRef),
                ops |-> <<decr>>]

\* ------------------------------------------- gcpCallInvocationTransformer
CallProperties ==
  [argument : Arguments, metadata : {TheMetadata}, channel : ChannelTargets,
   methodDefinition : Paths, callOptions : InterceptorLists]

\* IsGcpChannelFactory without the instanceof test of line 105.
IsGcpChannelFactory_NoInstanceof(channel) == channel.kind # "absent"

\* channelFactory && channelFactory instanceof GcpChannelFactory
IsGcpChannelFactory(channel) == channel.kind = "pool"

\* Lines 176-178: the caller's interceptors, then postProcessInterceptor.
NewCallOptions(callOptions) ==
  [present |-> TRUE,
   list |-> (IF callOptions.present THEN callOptions.list ELSE <<>>)
              \o <<"postProcessInterceptor">>]

\* firstReceived, incrs and decrs record the history of the call: the first
\* message handed to onReceiveMessage, and how often the call incremented and
\* decremented a counter.
NoCall ==
  [phase |-> "idle", path |-> "", channelRef |-> 0, boundKey |-> Undefined,
   firstMessage |-> Undefined, status |-> "none",
   firstReceived |-> Undefined, incrs |-> 0, decrs |-> 0]

Event(c, kind, input, output, ops, thrown) ==
  [call |-> c, kind |-> kind, input |-> input, output |-> output,
   ops |-> ops, thrown |-> thrown]

Init ==
  /\ counter = [ch \in Channels |-> 0]
  /\ binding = [k \in {} |-> 0]
  /\ calls = [c \in Calls |-> NoCall]
  /\ ev = Event(0, "none", Undefined, <<>>, <<>>, FALSE)

\* Calls are numbered in the order in which they are issued.
CanIssue(c) ==
  /\ calls[c].phase = "idle"
  /\ c > 1 => calls[c - 1].phase # "idle"

\* Lines 104-108: the call does not target the pool.
TransformBypass(c, callProperties) ==
  /\ CanIssue(c)
  /\ ~IsGcpChannelFactory(callProperties.channel)
  /\ calls' = [calls EXCEPT ![c].phase = "returned"]
  /\ ev' = Event(c, "transform", callProperties, <<callProperties>>, <<>>, FALSE)
  /\ UNCHANGED <<counter, binding>>

\* Lines 110-188: the call targets the pool.
TransformPooled(c, callProperties) ==
  /\ CanIssue(c)
  /\ IsGcpChannelFactory(callProperties.channel)
  /\ \E pre \in preProcess(callProperties.methodDefinition, callProperties.argument) :
       IF pre.thrown
       THEN /\ calls' = [calls EXCEPT ![c].phase = "aborted"]
            /\ ev' = Event(c, "transform", callProperties, <<>>, pre.ops, TRUE)
            /\ UNCHANGED <<counter, binding>>
       ELSE /\ calls' = [calls EXCEPT ![c] =
                 [phase |-> "dispatched",
                  path |-> callProperties.methodDefinition,
                  channelRef |-> pre.channelRef,
                  boundKey |-> pre.boundKey,
                  firstMessage |-> Undefined,
                  status |-> "none",
                  firstReceived |-> Undefined,
                  incrs |-> Cardinality({i \in DOMAIN pre.ops :
                              pre.ops[i].op = "activeStreamsCountIncr"}),
                  decrs |-> 0]]
            /\ counter' = pre.count
            /\ ev' = Event(c, "transform", callProperties,
                 <<[argument |-> callProperties.argument,
                    metadata |-> callProperties.metadata,
                    channel |-> Target("grpc", pre.channelRef),
                    methodDefinition |-> callProperties.methodDefinition,
                    callOptions |-> NewCallOptions(callProperties.callOptions)]>>,
                 pre.ops, FALSE)
            /\ UNCHANGED binding

gcpCallInvocationTransformer(c, callProperties) ==
  \/ TransformBypass(c, callProperties)
  \/ TransformPooled(c, callProperties)

\* ------------------------------------------------- postProcessInterceptor
\* requester.start: installs the listener and passes the metadata on.
Start(c, metadata) ==
  /\ calls[c].phase = "dispatched"
  /\ calls' = [calls EXCEPT ![c].phase = "started"]
  /\ ev' = Event(c, "start", metadata, <<metadata>>, <<>>, FALSE)
  /\ UNCHANGED <<counter, binding>>

\* requester.sendMessage, halfClose, cancel and listener.onReceiveMetadata
PassThrough(c, kind, value) ==
  /\ calls[c].phase = "started"
  /\ ev' = Event(c, kind, value, <<value>>, <<>>, FALSE)
  /\ UNCHANGED <<counter, binding, calls>>

sendMessage(c, message) == PassThrough(c, "sendMessage", message)

halfClose(c) == PassThrough(c, "halfClose", Undefined)

cancel(c) == PassThrough(c, "cancel", Undefined)

onReceiveMetadata(c, metadata) == PassThrough(c, "onReceiveMetadata", metadata)

\* Line 143
CaptureFirstMessage(firstMessage, message) ==
  IF ~Truthy(firstMessage) THEN message ELSE firstMessage

onReceiveMessage(c, message) ==
  /\ calls[c].phase = "started"
  /\ calls' = [calls EXCEPT
                 ![c].firstMessage = CaptureFirstMessage(@, message),
                 ![c].firstReceived = IF @ = Undefined THEN message ELSE @]
  /\ ev' = Event(c, "onReceiveMessage", message, <<message>>, <<>>, FALSE)
  /\ UNCHANGED <<counter, binding>>

\* IsOK without the comparison of line 147: postProcess for every status.
IsOK_AnyStatus(code) == TRUE

\* status.code === grpc.status.OK
IsOK(code) == code = "OK"

\* Lines 146-157. An exception of postProcess leaves before next(status).
onReceiveStatus(c, code) ==
  /\ calls[c].phase = "started"
  /\ IF IsOK(code)
     THEN LET post == postProcess("pool", calls[c].channelRef, calls[c].path,
                                  calls[c].boundKey, calls[c].firstMessage)
              call == <<Op("postProcess", calls[c].firstMessage, calls[c].channelRef)>>
          IN /\ binding' = post.table
             /\ counter' = post.count
             /\ calls' = [calls EXCEPT
                            ![c].phase = IF post.thrown THEN "threw" ELSE "done",
                            ![c].status = code,
                            ![c].decrs = Cardinality({i \in DOMAIN post.ops :
                                 post.ops[i].op = "activeStreamsCountDecr"})]
             /\ ev' = Event(c, "onReceiveStatus", code,
                            IF post.thrown THEN <<>> ELSE <<code>>,
                            call \o post.ops, post.thrown)
     ELSE /\ calls' = [calls EXCEPT ![c].phase = "done", ![c].status = code]
          /\ ev' = Event(c, "onReceiveStatus", code, <<code>>, <<>>, FALSE)
          /\ UNCHANGED <<counter, binding>>

Next ==
  \/ \E c \in Calls, callProperties \in CallProperties :
       gcpCallInvocationTransformer(c, callProperties)
  \/ \E c \in Calls : Start(c, TheMetadata)
  \/ \E c \in Calls, message \in Messages : sendMessage(c, message)
  \/ \E c \in Calls : halfClose(c)
  \/ \E c \in Calls : cancel(c)
  \/ \E c \in Calls : onReceiveMetadata(c, TheMetadata)
  \/ \E c \in Calls, message \in Responses : onReceiveMessage(c, message)
  \/ \E c \in Calls, code \in StatusCodes : onReceiveStatus(c, code)

Spec == Init /\ [][Next]_vars

\* ================================================================= claims
\* The command in force for a method: NONE when no policy is configured.
CommandOf(path) ==
  IF HasCommand(getAffinityConfig(path)) THEN getAffinityConfig(path).command
  ELSE NONE

\* The affinity key the configured field path of a method names in a message
\* (the resolver applied to the message and the locator).
KeyIn(message, path) ==
  getAffinityKeyFromMessage(message, getAffinityConfig(path).affinityKey)

\* The field path of the method resolves to a key in the message.
Resolves(message, path) ==
  /\ ~KeyIn(message, path).thrown
  /\ KeyIn(message, path).value.t = "string"
  /\ KeyIn(message, path).value # EmptyString

\* The operations named op that the last handler invoked.
OpsNamed(op) == {i \in DOMAIN ev.ops : ev.ops[i].op = op}

LastIsPooledTransform ==
  ev.kind = "transform" /\ ev.input.channel.kind = "pool"

\* The step in which call c is handed to gcpCallInvocationTransformer.
TransformStep(c) == calls[c].phase = "idle" /\ calls'[c].phase # "idle"

\* The step in which the terminal status of call c is handled.
StatusStep(c) ==
  calls[c].phase = "started" /\ calls'[c].phase \in {"done", "threw"}

\* C1: once every call is a pooled call whose success status has been handled,
\* every channel's active-call counter is back at its initial value.
C1_CountersReturnToBaseline ==
  (\A c \in Calls : calls[c].phase \in {"done", "threw"} /\ calls[c].status = "OK")
    => \A ch \in Channels : counter[ch] = 0

\* C2: a BOUND call whose request resolves to key K asks the pool for a
\* channel with bound key K, and gets the channel bound to K when there is one.
C2_BoundKeyPassedToPool ==
  (/\ LastIsPooledTransform
   /\ CommandOf(ev.input.methodDefinition) = BOUND
   /\ Resolves(ev.input.argument, ev.input.methodDefinition))
    => /\ ~ev.thrown
       /\ \E i \in OpsNamed("getChannelRef") :
            /\ ev.ops[i].key = KeyIn(ev.input.argument, ev.input.methodDefinition).value
            /\ ev.ops[i].key \in DOMAIN binding => ev.ops[i].ch = binding[ev.ops[i].key]

\* C3: the success status of a BIND call whose first response resolves to key
\* K changes the binding table to exactly: K -> the call's channel, every
\* other key as before.
C3_BindUpdatesBinding ==
  [][\A c \in Calls :
       (/\ StatusStep(c)
        /\ calls'[c].status = "OK"
        /\ CommandOf(calls[c].path) = BIND
        /\ Resolves(calls[c].firstMessage, calls[c].path))
         => binding' = bind(binding, calls[c].channelRef,
                            KeyIn(calls[c].firstMessage, calls[c].path).value)]_vars

\* C4: an UNBIND call whose request resolves to key K carries K as its bound
\* key from preProcess on, and the handling of its success status leaves no
\* binding for that key, whatever was received.
C4_UnbindRemovesRequestKey ==
  [][\A c \in Calls :
       /\ (/\ TransformStep(c)
           /\ ev'.input.channel.kind = "pool"
           /\ CommandOf(ev'.input.methodDefinition) = UNBIND
           /\ Resolves(ev'.input.argument, ev'.input.methodDefinition))
            => /\ calls'[c].phase = "dispatched"
               /\ calls'[c].boundKey =
                    KeyIn(ev'.input.argument, ev'.input.methodDefinition).value
       /\ (/\ StatusStep(c)
           /\ calls'[c].status = "OK"
           /\ CommandOf(calls[c].path) = UNBIND
           /\ calls[c].boundKey # Undefined)
            => calls[c].boundKey \notin DOMAIN binding']_vars

\* C5: a handler of a call whose method has policy NONE or no policy computes
\* no affinity key, asks the pool for a channel with no bound key, and calls
\* neither bind nor unbind.
C5_NoPolicyNoAffinity ==
  LET path == IF ev.kind = "transform" THEN ev.input.methodDefinition
              ELSE calls[ev.call].path
  IN (ev.kind \in {"transform", "onReceiveStatus"} /\ CommandOf(path) = NONE)
       => /\ OpsNamed("getAffinityKeyFromMessage") = {}
          /\ OpsNamed("bind") = {}
          /\ OpsNamed("unbind") = {}
          /\ \A i \in OpsNamed("getChannelRef") : ev.ops[i].key = Undefined
          /\ ~ev.thrown

\* A call without policy, issued with a request that holds a key, got a
\* response that holds a key and ended with success.
C5_Witness ==
  /\ ev.kind = "onReceiveStatus"
  /\ ev.input = "OK"
  /\ calls[ev.call].path = "/None"
  /\ calls[ev.call].firstMessage = MsgAB
  /\ OpsNamed("activeStreamsCountDecr") # {}
  /\ \E c \in Calls : c # ev.call /\ calls[c].path = "/NoPolicy"
                      /\ calls[c].phase = "done"

\* C6: the handler of a terminal status invokes postProcess if and only if the
\* status is success, with the captured first message, and forwards the status
\* unchanged exactly once.
C6_StatusGateAndForward ==
  ev.kind = "onReceiveStatus"
    => /\ (OpsNamed("postProcess") # {}) <=> (ev.input = "OK")
       /\ \A i \in OpsNamed("postProcess") :
            i = 1 /\ ev.ops[i].key = calls[ev.call].firstMessage
       /\ ev.output = <<ev.input>>

\* C7: every handler of the lifecycle adapter forwards what it received to the
\* next handler exactly once and unchanged.
C7_AdapterForwardsEverything ==
  ev.kind \in {"start", "sendMessage", "halfClose", "cancel",
               "onReceiveMetadata", "onReceiveMessage", "onReceiveStatus"}
    => ev.output = <<ev.input>>

\* C8: for a call whose channel is absent or is not the pool, the transformer
\* returns its input and leaves the counters and the binding table alone,
\* invoking no pool operation.
C8_ForeignChannelBypass ==
  [][\A c \in Calls :
       (TransformStep(c) /\ ev'.input.channel.kind # "pool")
         => /\ ev'.output = <<ev'.input>>
            /\ ev'.ops = <<>>
            /\ ~ev'.thrown
            /\ counter' = counter
            /\ binding' = binding]_vars

\* A call on a foreign channel, for a BOUND method and with a request that
\* holds a key, was returned while a pooled call holds a channel.
C8_Witness ==
  /\ ev.kind = "transform"
  /\ ev.input.channel.kind = "foreign"
  /\ ev.input.methodDefinition = "/Bound"
  /\ ev.input.argument = MsgA
  /\ calls[ev.call].phase = "returned"
  /\ \E ch \in Channels : counter[ch] > 0

\* C9: a handler that resolves an affinity key never ends with an exception,
\* and preProcess gets the empty string for a request that does not resolve.
C9_ResolveNeverThrows ==
  OpsNamed("getAffinityKeyFromMessage") # {}
    => /\ ~ev.thrown
       /\ (ev.kind = "transform"
            /\ ~Resolves(ev.input.argument, ev.input.methodDefinition))
            => calls[ev.call].boundKey = EmptyString

\* C10: a pooled BOUND or UNBIND call whose request is present and does not
\* resolve is dispatched all the same: the pool is asked for a channel, that
\* channel's counter is incremented once and call parameters are returned.
C10_ResolutionFailureProceeds ==
  (/\ LastIsPooledTransform
   /\ CommandOf(ev.input.methodDefinition) \in {BOUND, UNBIND}
   /\ Truthy(ev.input.argument)
   /\ ~Resolves(ev.input.argument, ev.input.methodDefinition))
    => /\ calls[ev.call].phase = "dispatched"
       /\ Cardinality(OpsNamed("getChannelRef")) = 1
       /\ Cardinality(OpsNamed("activeStreamsCountIncr")) = 1
       /\ Len(ev.output) = 1

\* C11: the success status of a BIND call whose first response does not
\* resolve leaves the binding table as it was, decrements the counter of the
\* call's channel and is forwarded to the caller.
C11_BindFailureLeavesTable ==
  [][\A c \in Calls :
       (/\ StatusStep(c)
        /\ calls'[c].status = "OK"
        /\ CommandOf(calls[c].path) = BIND
        /\ Truthy(calls[c].firstMessage)
        /\ ~Resolves(calls[c].firstMessage, calls[c].path))
         => /\ binding' = binding
            /\ counter' = activeStreamsCountDecr(counter, calls[c].channelRef)
            /\ ev'.output = <<"OK">>]_vars

\* The calls whose terminal status was handled and was not success.
FailedOn(ch) ==
  {c \in Calls : /\ calls[c].phase = "done"
                 /\ calls[c].status # "OK"
                 /\ calls[c].channelRef = ch}

\* C12: the handler of a non-success terminal status runs no postProcess and
\* changes neither the binding table nor a counter; so every channel's counter
\* stays above its initial value by at least the number of failed calls
\* dispatched on it.
C12_FailedCallsKeepReservation ==
  /\ [](\A ch \in Channels : counter[ch] >= Cardinality(FailedOn(ch)))
  /\ [][\A c \in Calls :
          (StatusStep(c) /\ calls'[c].status # "OK")
            => /\ ev'.ops = <<>>
               /\ ev'.output = <<calls'[c].status>>
               /\ binding' = binding
               /\ counter' = counter]_vars

\* Both calls ran on one channel and failed, one of them on an UNBIND method
\* after a response; the channel's counter is at 2.
C12_Witness ==
  \E ch \in Channels :
    /\ Cardinality(FailedOn(ch)) = 2
    /\ counter[ch] = 2
    /\ \E c \in FailedOn(ch) :
         calls[c].path = "/Unbind" /\ calls[c].firstMessage = MsgA

\* C13: postProcess does nothing when it has no pool or no response message:
\* the handling of a success status of a call without captured message leaves
\* the binding table and every counter as they were.
C13_NoMessageNoOp ==
  /\ [](\A ch \in Channels, path \in Paths, msg \in Responses \cup {Undefined} :
          LET r == postProcess("absent", ch, path, Undefined, msg)
          IN r.table = binding /\ r.count = counter /\ r.ops = <<>>)
  /\ [][\A c \in Calls :
          (/\ StatusStep(c)
           /\ calls'[c].status = "OK"
           /\ ~Truthy(calls[c].firstMessage))
            => /\ binding' = binding
               /\ counter' = counter
               /\ calls'[c].decrs = 0
               /\ ev'.ops = <<Op("postProcess", calls[c].firstMessage,
                                 calls[c].channelRef)>>]_vars

\* An UNBIND call and a call without policy, both on one channel, ended with
\* success without a captured message: the counter is still at 2.
C13_Witness ==
  \E ch \in Channels :
    /\ counter[ch] = 2
    /\ \A c \in Calls : /\ calls[c].phase = "done"
                        /\ calls[c].status = "OK"
                        /\ calls[c].channelRef = ch
                        /\ ~Truthy(calls[c].firstMessage)
    /\ \E c \in Calls : calls[c].path = "/Unbind"
    /\ \E c \in Calls : calls[c].path = "/NoPolicy"

\* C14: the handling of a pooled call by gcpCallInvocationTransformer
\* dispatches the call on a selected channel, increments the counter of that
\* channel by one as its last pool operation, and changes neither the binding
\* table nor another counter, whatever the policy and the request.
C14_PreProcessIncrementsOnce ==
  [][\A c \in Calls :
       (TransformStep(c) /\ ev'.input.channel.kind = "pool")
         => /\ calls'[c].phase = "dispatched"
            /\ calls'[c].channelRef \in Channels
            /\ binding' = binding
            /\ counter' = [counter EXCEPT ![calls'[c].channelRef] = @ + 1]
            /\ Len(ev'.ops) >= 2
            /\ ev'.ops[Len(ev'.ops) - 1].op = "getChannelRef"
            /\ ev'.ops[Len(ev'.ops)] =
                 Op("activeStreamsCountIncr", Undefined, calls'[c].channelRef)]_vars

\* C15: a pooled call asks the pool for a channel with a bound key only when
\* its request is present and its command is BOUND or UNBIND; a BIND call, and
\* any call without request, computes no key, carries no bound key and is
\* dispatched on a channel of the default selection.
C15_BoundKeyOnlyForBoundUnbind ==
  LastIsPooledTransform =>
    LET argument == ev.input.argument
        command == CommandOf(ev.input.methodDefinition)
        keyed == Truthy(argument) /\ command \in {BOUND, UNBIND}
    IN /\ (\E i \in OpsNamed("getChannelRef") : ev.ops[i].key # Undefined)
            => keyed
       /\ ~keyed
            => /\ ~ev.thrown
               /\ calls[ev.call].phase = "dispatched"
               /\ calls[ev.call].boundKey = Undefined
               /\ OpsNamed("getAffinityKeyFromMessage") = {}
               /\ \E i \in OpsNamed("getChannelRef") :
                    /\ ev.ops[i].key = Undefined
                    /\ ev.ops[i].ch = calls[ev.call].channelRef

\* A BIND call with a request and a BOUND call without request, both
\* dispatched without bound key.
C15_Witness ==
  /\ LastIsPooledTransform
  /\ ev.call = 2
  /\ ev.input.methodDefinition = "/Bound"
  /\ ev.input.argument = Undefined
  /\ calls[2].phase = "dispatched"
  /\ calls[2].boundKey = Undefined
  /\ calls[1].path = "/Bind"
  /\ calls[1].phase = "dispatched"
  /\ calls[1].boundKey = Undefined

\* C16: the message that the handling of a success status hands to
\* postProcess is the first message the call received, if any.
C16_FirstMessageRetained ==
  [][\A c \in Calls :
       (StatusStep(c) /\ calls'[c].status = "OK")
         => ev'.ops[1] = Op("postProcess", calls[c].firstReceived,
                            calls[c].channelRef)]_vars

\* C17: when the success status of a BIND call is handled after that of
\* another BIND call on a different channel, and the first responses of both
\* resolve to the same key K, the binding table then maps K to the channel of
\* the call handled last.
C17_LastWriterWins ==
  [][\A c, d \in Calls :
       (/\ c # d
        /\ StatusStep(c)
        /\ calls'[c].status = "OK"
        /\ calls[d].phase \in {"done", "threw"}
        /\ calls[d].status = "OK"
        /\ CommandOf(calls[c].path) = BIND
        /\ CommandOf(calls[d].path) = BIND
        /\ calls[c].channelRef # calls[d].channelRef
        /\ Resolves(calls[c].firstMessage, calls[c].path)
        /\ Resolves(calls[d].firstMessage, calls[d].path)
        /\ KeyIn(calls[c].firstMessage, calls[c].path).value
             = KeyIn(calls[d].firstMessage, calls[d].path).value)
         => LET K == KeyIn(calls[c].firstMessage, calls[c].path).value
            IN /\ K \in DOMAIN binding'
               /\ binding'[K] = calls[c].channelRef]_vars

\* The calls that incremented the counter of channel ch and have not
\* decremented it.
Outstanding(ch) ==
  {c \in Calls : /\ calls[c].channelRef = ch
                 /\ calls[c].incrs = 1
                 /\ calls[c].decrs = 0}

\* C18: the counter of every channel is the number of calls dispatched on it
\* that have not decremented it; no counter is negative, every call
\* increments at most once and decrements at most once, after its increment.
C18_CounterCountsOutstanding ==
  /\ \A ch \in Channels : /\ counter[ch] = Cardinality(Outstanding(ch))
                          /\ counter[ch] >= 0
  /\ \A c \in Calls : /\ calls[c].incrs \in {0, 1}
                      /\ calls[c].decrs \in {0, 1}
                      /\ calls[c].decrs <= calls[c].incrs
                      /\ calls[c].incrs = 1
                           <=> calls[c].phase \in {"dispatched", "started",
                                                   "done", "threw"}

\* A call has decremented the counter of its channel while another call on
\* the same channel is still running.
C18_Witness ==
  \E c, d \in Calls :
    /\ calls[c].channelRef = calls[d].channelRef
    /\ calls[c].phase = "done"
    /\ calls[c].decrs = 1
    /\ calls[d].phase = "started"
    /\ counter[calls[d].channelRef] = 1
    /\ ev.call = c

\* C19: the pool operations of the handling of a call's status name the
\* channel its preProcess selected and change no other counter; the channel
\* and bound key of a call stay as preProcess set them, and a step of one
\* call leaves the record of every other call alone.
C19_ContextIsPerCall ==
  [][\A c \in Calls :
       /\ calls[c].phase # "idle"
            => /\ calls'[c].channelRef = calls[c].channelRef
               /\ calls'[c].boundKey = calls[c].boundKey
       /\ ev'.call # c => calls'[c] = calls[c]
       /\ StatusStep(c)
            => /\ \A i \in DOMAIN ev'.ops :
                    ev'.ops[i].ch \in {0, calls[c].channelRef}
               /\ \A ch \in Channels \ {calls[c].channelRef} :
                    counter'[ch] = counter[ch]
               /\ \A k \in DOMAIN binding' \ DOMAIN binding :
                    binding'[k] = calls[c].channelRef]_vars

\* Two calls run on different channels and the one on the second channel has
\* ended with success and decremented the counter of its own channel.
C19_Witness ==
  \E c, d \in Calls :
    /\ calls[c].channelRef = 2
    /\ calls[d].channelRef = 1
    /\ calls[d].phase = "started"
    /\ calls[c].phase = "done"
    /\ calls[c].decrs = 1
    /\ ev.call = c
    /\ ev.kind = "onReceiveStatus"
    /\ counter = [ch \in Channels |-> IF ch = 1 THEN 1 ELSE 0]

\* C20: an UNBIND call is dispatched without a change of the binding table
\* and removes the binding of its key when its success status is handled; a
\* BOUND call whose request resolves to key K is dispatched on the channel
\* that the table binds to K at that moment, if any.
C20_UnbindTakesEffectAtStatus ==
  [][\A c \in Calls :
       /\ (/\ TransformStep(c)
           /\ ev'.input.channel.kind = "pool"
           /\ CommandOf(ev'.input.methodDefinition) = UNBIND)
            => /\ calls'[c].phase = "dispatched"
               /\ binding' = binding
       /\ (/\ TransformStep(c)
           /\ ev'.input.channel.kind = "pool"
           /\ CommandOf(ev'.input.methodDefinition) = BOUND
           /\ Resolves(ev'.input.argument, ev'.input.methodDefinition))
            => LET K == KeyIn(ev'.input.argument,
                              ev'.input.methodDefinition).value
               IN /\ calls'[c].phase = "dispatched"
                  /\ K \in DOMAIN binding
                       => calls'[c].channelRef = binding[K]
       /\ (/\ StatusStep(c)
           /\ calls'[c].status = "OK"
           /\ CommandOf(calls[c].path) = UNBIND
           /\ Truthy(calls[c].firstMessage))
            => binding' = unbind(binding, calls[c].boundKey)]_vars

====
